---- MODULE Spec2Model ----
(***************************************************************************)
(* go-portable: a portability checker for Go packages.                     *)
(*                                                                         *)
(* The model follows the program with the -mode and -first-class flags     *)
(* (main, run, godistlist, govet, gobuild).  Text is modelled as a         *)
(* sequence of chunks (short strings); "/" and "\n" are chunks of their    *)
(* own, so that splitting, prefix tests and formatting are computed on the *)
(* text and not assumed.                                                   *)
(***************************************************************************)
EXTENDS Integers, Sequences, FiniteSets

(* ------------------------------ bounds --------------------------------- *)

\* Largest number of lines written by "go tool dist list".
MaxLines == 2

\* Largest exit status of a child process; statuses are 0..MaxCode.
MaxCode == 2

\* Largest number of package patterns on the command line.
MaxPatterns == 1

(* ------------------------------ helpers -------------------------------- *)

SeqUpTo(S, n) == UNION {[1..k -> S] : k \in 0..n}

RECURSIVE Flatten(_)
Flatten(ss) == IF ss = <<>> THEN <<>> ELSE Head(ss) \o Flatten(Tail(ss))

\* A nil []byte and a nil error are values of their own: an empty slice that
\* is not nil is a different value for the tests "msg == nil", "err != nil".
NilBytes == [isnil |-> TRUE, b |-> <<>>]
Bytes(s) == [isnil |-> FALSE, b |-> s]

\* An error value: nil, an *invoke.Error wrapping an *exec.Error or an
\* *exec.ExitError (with the captured standard error), or an error made by
\* fmt.Errorf (with its text).
NilErr == [type |-> "nil", code |-> 0, stderr |-> NilBytes, text |-> <<>>]

(* ------------------------- program constants --------------------------- *)

\* gocmdshort: the base name of the go command, used in messages.
gocmdshort == "go"

\* os.DevNull
DevNull == "/dev/null"

\* First class ports.
firstClass ==
    { <<"linux", "/", "amd64">>, <<"linux", "/", "386">>,
      <<"linux", "/", "arm">>, <<"linux", "/", "arm64">>,
      <<"darwin", "/", "amd64">>, <<"windows", "/", "amd64">>,
      <<"windows", "/", "386">> }

\* type platform struct { os, arch string }
platform(os, arch) == [os |-> os, arch |-> arch]

(* ------------------------ inputs of the program ------------------------ *)

\* Values of the -mode flag; "vet" is the default.
Modes == {"vet", "build", "lint"}

\* The package patterns: none, or the first MaxPatterns of a list.
PatternList == <<"./...", "example.com/pkg", "./cmd">>
PatternSet == { SubSeq(PatternList, 1, n) : n \in {0, MaxPatterns} }

\* Lines that the authority command may write.
LineSamples ==
    { <<"linux", "/", "amd64">>,          \* a first class port
      <<"windows", "/", "386">>,          \* another first class port
      <<"darwin", "/", "arm64">>,         \* a port that is not first class
      <<>>,                               \* an empty line
      <<"linuxamd64">>,                   \* no separator
      <<"linux", "/", "amd64", "/", "v1">>, \* three fields
      <<"/", "amd64">> }                  \* two fields, the first empty

\* Standard error contents of a verification command.
StderrEmpty   == <<>>
StderrHash    == <<"#", " pkg", "\n", "foo.go:3: bad", "\n">>
StderrPackage == <<"package", " pkg: build constraints exclude all Go files", "\n">>
StderrOther   == <<"panic: runtime error", "\n">>
StderrSamples == {StderrEmpty, StderrHash, StderrPackage, StderrOther}

\* What the operating system reports for one child process: either the
\* process could not be started, or it ran and exited with a status.
\* nilempty tells whether an empty captured standard error is handed over as
\* a nil slice (the invoke package is free to do either).
ProcResult(started, code, stderr, nilempty) ==
    [started |-> started, code |-> code, stderr |-> stderr, nilempty |-> nilempty]

\* The results tried: a launch failure, with or without captured text; status
\* 0 with an empty standard error and with a text; status 1 with every
\* sample of standard error; every other status with the "#" text.
ProcResults ==
    { ProcResult(FALSE, 0, s, FALSE) : s \in {StderrEmpty, StderrHash} }
    \cup { ProcResult(TRUE, 0, s, FALSE) : s \in {StderrEmpty, StderrHash} }
    \cup { ProcResult(TRUE, 1, s, FALSE) : s \in StderrSamples }
    \cup { ProcResult(TRUE, c, StderrHash, FALSE) : c \in 2..MaxCode }
    \cup { ProcResult(TRUE, 1, StderrEmpty, TRUE) }

\* The standard output of the authority command: the lines, each ended by a
\* newline, the last newline optional.
JoinLines(ls, finalnl) ==
    Flatten([k \in 1..Len(ls) |->
                IF k < Len(ls) \/ finalnl THEN ls[k] \o <<"\n">> ELSE ls[k]])

DistOutputs ==
    { JoinLines(ls, nl) : ls \in SeqUpTo(LineSamples, MaxLines), nl \in BOOLEAN }

DistResults ==
    { [started |-> FALSE, code |-> 0, stdout |-> <<>>],
      [started |-> TRUE, code |-> 1, stdout |-> <<>>] }
    \cup { [started |-> TRUE, code |-> 0, stdout |-> o] : o \in DistOutputs }

(* ----------------------- package internal/invoke ----------------------- *)

\* The Stderr field of an *invoke.Error: the captured standard error.
Captured(res) ==
    IF res.stderr = <<>> /\ res.nilempty THEN NilBytes ELSE Bytes(res.stderr)

\* invoke.Run: nil when the process started and exited with status 0, else an
\* *invoke.Error whose Err is an *exec.Error (the process did not start) or
\* an *exec.ExitError (it exited with a non-zero status).
invokeRun(res) ==
    IF ~res.started
    THEN [type |-> "exec.Error", code |-> 0, stderr |-> Captured(res), text |-> <<>>]
    ELSE IF res.code = 0
    THEN NilErr
    ELSE [type |-> "exec.ExitError", code |-> res.code,
          stderr |-> Captured(res), text |-> <<>>]

\* invoke.Output: the standard output and the error of invoke.Run.
invokeOutput(d) ==
    IF ~d.started
    THEN [stdout |-> <<>>,
          err |-> [type |-> "exec.Error", code |-> 0, stderr |-> NilBytes, text |-> <<>>]]
    ELSE IF d.code = 0
    THEN [stdout |-> d.stdout, err |-> NilErr]
    ELSE [stdout |-> <<>>,
          err |-> [type |-> "exec.ExitError", code |-> d.code,
                   stderr |-> NilBytes, text |-> <<>>]]

(* ------------------------------ godistlist ----------------------------- *)

\* strings.Split(s, sep) for a one-chunk separator: the pieces between the
\* separators, always at least one piece.
RECURSIVE SplitFrom(_, _, _, _)
SplitFrom(s, sep, k, cur) ==
    IF k > Len(s) THEN <<cur>>
    ELSE IF s[k] = sep THEN <<cur>> \o SplitFrom(s, sep, k + 1, <<>>)
    ELSE SplitFrom(s, sep, k + 1, Append(cur, s[k]))

Split(s, sep) == SplitFrom(s, sep, 1, <<>>)

\* bufio.Scanner with the default split function: the lines of the input
\* without their newline; an empty last line (after a final newline, or of
\* an empty input) is not a line, an empty line elsewhere is.
ScanLines(stdout) ==
    LET ps == Split(stdout, "\n")
    IN  IF ps[Len(ps)] = <<>> THEN SubSeq(ps, 1, Len(ps) - 1) ELSE ps

InvalidOutput(line) ==
    [type |-> "fmt.Errorf", code |-> 0, stderr |-> NilBytes,
     text |-> <<gocmdshort, " tool dist list", ": invalid output: ">> \o line]

\* The loop of godistlist, putting each platform in front of the list.
RECURSIVE ParseFrom_reversed(_, _, _, _)
ParseFrom_reversed(lines, prim, k, list) ==
    IF k > Len(lines) THEN [list |-> list, err |-> NilErr]
    ELSE LET line   == lines[k]
             fields == Split(line, "/")
         IN  IF Len(fields) # 2
             THEN [list |-> <<>>, err |-> InvalidOutput(line)]
             ELSE IF prim /\ line \notin firstClass
             THEN ParseFrom_reversed(lines, prim, k + 1, list)
             ELSE ParseFrom_reversed(lines, prim, k + 1,
                            <<platform(fields[1], fields[2])>> \o list)

\* The loop of godistlist, with the test of the first class ports negated.
RECURSIVE ParseFrom_keepsOthers(_, _, _, _)
ParseFrom_keepsOthers(lines, prim, k, list) ==
    IF k > Len(lines) THEN [list |-> list, err |-> NilErr]
    ELSE LET line   == lines[k]
             fields == Split(line, "/")
         IN  IF Len(fields) # 2
             THEN [list |-> <<>>, err |-> InvalidOutput(line)]
             ELSE IF prim /\ line \in firstClass
             THEN ParseFrom_keepsOthers(lines, prim, k + 1, list)
             ELSE ParseFrom_keepsOthers(lines, prim, k + 1,
                            Append(list, platform(fields[1], fields[2])))

\* The loop of godistlist, going on after a line that has not two fields.
RECURSIVE ParseFrom_skipsInvalid(_, _, _, _)
ParseFrom_skipsInvalid(lines, prim, k, list) ==
    IF k > Len(lines) THEN [list |-> list, err |-> NilErr]
    ELSE LET line   == lines[k]
             fields == Split(line, "/")
         IN  IF Len(fields) # 2 \/ (prim /\ line \notin firstClass)
             THEN ParseFrom_skipsInvalid(lines, prim, k + 1, list)
             ELSE ParseFrom_skipsInvalid(lines, prim, k + 1,
                            Append(list, platform(fields[1], fields[2])))

\* The loop of godistlist, with the test of the first class ports made
\* before the test of the number of fields.
RECURSIVE ParseFrom_filterFirst(_, _, _, _)
ParseFrom_filterFirst(lines, prim, k, list) ==
    IF k > Len(lines) THEN [list |-> list, err |-> NilErr]
    ELSE LET line   == lines[k]
             fields == Split(line, "/")
         IN  IF prim /\ line \notin firstClass
             THEN ParseFrom_filterFirst(lines, prim, k + 1, list)
             ELSE IF Len(fields) # 2
             THEN [list |-> <<>>, err |-> InvalidOutput(line)]
             ELSE ParseFrom_filterFirst(lines, prim, k + 1,
                            Append(list, platform(fields[1], fields[2])))

\* The loop of godistlist over the scanned lines, from line k on.
RECURSIVE ParseFrom(_, _, _, _)
ParseFrom(lines, prim, k, list) ==
    IF k > Len(lines) THEN [list |-> list, err |-> NilErr]
    ELSE LET line   == lines[k]
             fields == Split(line, "/")
         IN  IF Len(fields) # 2
             THEN [list |-> <<>>, err |-> InvalidOutput(line)]
             ELSE IF prim /\ line \notin firstClass
             THEN ParseFrom(lines, prim, k + 1, list)
             ELSE ParseFrom(lines, prim, k + 1,
                            Append(list, platform(fields[1], fields[2])))

\* godistlist invokes go tool dist list to get a list of supported
\* platforms.  When prim is true, only first class ports are included.
godistlist(prim, d) ==
    LET out == invokeOutput(d)
    IN  IF out.err # NilErr
        THEN [list |-> <<>>, err |-> out.err]
        ELSE ParseFrom(ScanLines(out.stdout), prim, 1, <<>>)

(* --------------------------- govet and gobuild ------------------------- *)

\* An *exec.Cmd: the arguments after the command name and the variables
\* appended to the inherited environment.
Env(name, value) == [name |-> name, value |-> value]

\* The command built by govet: go vet patterns..., with GOOS and GOARCH.
govetCmd(sys, patterns) ==
    [args |-> <<"vet">> \o patterns,
     env  |-> <<Env("GOOS", sys.os), Env("GOARCH", sys.arch)>>]

\* govet, fatal when the standard error does not begin with "#".
govet_hashOnly(sys, patterns, res) ==
    LET cmd == govetCmd(sys, patterns)
        err == invokeRun(res)
    IN  IF err # NilErr
        THEN CASE err.type = "exec.ExitError" /\ err.stderr.b # <<>>
                      /\ err.stderr.b[1] = "#"
                                               -> [cmd |-> cmd, msg |-> err.stderr, err |-> NilErr]
               [] OTHER                        -> [cmd |-> cmd, msg |-> NilBytes, err |-> err]
        ELSE [cmd |-> cmd, msg |-> NilBytes, err |-> NilErr]

\* govet, treating only exit status 2 as a diagnostic and any other non-zero
\* status as fatal.
govet_onlyStatus2(sys, patterns, res) ==
    LET cmd == govetCmd(sys, patterns)
        err == invokeRun(res)
    IN  IF err # NilErr
        THEN CASE err.type = "exec.Error"     -> [cmd |-> cmd, msg |-> NilBytes, err |-> err]
               [] err.type = "exec.ExitError" /\ err.code = 2
                                               -> [cmd |-> cmd, msg |-> err.stderr, err |-> NilErr]
               [] OTHER                        -> [cmd |-> cmd, msg |-> NilBytes, err |-> err]
        ELSE [cmd |-> cmd, msg |-> NilBytes, err |-> NilErr]

\* govet, returning the captured standard error as a diagnostic also when
\* the command could not be started.
govet_launchAsDiagnostic(sys, patterns, res) ==
    LET cmd == govetCmd(sys, patterns)
        err == invokeRun(res)
    IN  IF err # NilErr
        THEN CASE err.type \in {"exec.Error", "exec.ExitError"}
                                               -> [cmd |-> cmd, msg |-> err.stderr, err |-> NilErr]
               [] OTHER                        -> [cmd |-> cmd, msg |-> NilBytes, err |-> err]
        ELSE [cmd |-> cmd, msg |-> NilBytes, err |-> NilErr]

\* govet invokes go vet on the packages named by the given patterns, for the
\* specified platform.  It returns the diagnostic message and a non nil
\* error in case of a fatal error.
govet(sys, patterns, res) ==
    LET cmd == govetCmd(sys, patterns)
        err == invokeRun(res)
    IN  IF err # NilErr
        THEN CASE err.type = "exec.Error"     -> [cmd |-> cmd, msg |-> NilBytes, err |-> err]
               [] err.type = "exec.ExitError" -> [cmd |-> cmd, msg |-> err.stderr, err |-> NilErr]
               [] OTHER                        -> [cmd |-> cmd, msg |-> NilBytes, err |-> err]
        ELSE [cmd |-> cmd, msg |-> NilBytes, err |-> NilErr]

\* The command of gobuild without CGO_ENABLED=0.
gobuildCmd_cgo(sys, patterns) ==
    [args |-> <<"build", "-o", DevNull>> \o patterns,
     env  |-> <<Env("GOOS", sys.os), Env("GOARCH", sys.arch)>>]

\* The command built by gobuild: go build -o /dev/null patterns..., with
\* GOOS, GOARCH and CGO_ENABLED=0.
gobuildCmd(sys, patterns) ==
    [args |-> <<"build", "-o", DevNull>> \o patterns,
     env  |-> <<Env("GOOS", sys.os), Env("GOARCH", sys.arch),
                Env("CGO_ENABLED", <<"0">>)>>]

\* gobuild, returning a non-empty standard error as a diagnostic also when
\* the command succeeded.
gobuild_stderrOnSuccess(sys, patterns, res) ==
    LET cmd == gobuildCmd(sys, patterns)
        err == invokeRun(res)
    IN  IF err # NilErr
        THEN CASE err.type = "exec.Error"     -> [cmd |-> cmd, msg |-> NilBytes, err |-> err]
               [] err.type = "exec.ExitError" -> [cmd |-> cmd, msg |-> err.stderr, err |-> NilErr]
               [] OTHER                        -> [cmd |-> cmd, msg |-> NilBytes, err |-> err]
        ELSE [cmd |-> cmd,
              msg |-> IF res.stderr = <<>> THEN NilBytes ELSE Bytes(res.stderr),
              err |-> NilErr]

\* gobuild invokes go build on the packages named by the given patterns, for
\* the specified platform.
gobuild(sys, patterns, res) ==
    LET cmd == gobuildCmd(sys, patterns)
        err == invokeRun(res)
    IN  IF err # NilErr
        THEN CASE err.type = "exec.Error"     -> [cmd |-> cmd, msg |-> NilBytes, err |-> err]
               [] err.type = "exec.ExitError" -> [cmd |-> cmd, msg |-> err.stderr, err |-> NilErr]
               [] OTHER                        -> [cmd |-> cmd, msg |-> NilBytes, err |-> err]
        ELSE [cmd |-> cmd, msg |-> NilBytes, err |-> NilErr]

\* tool := govet; if mode == "build" { tool = gobuild }
tool(m, sys, patterns, res) ==
    IF m = "build" THEN gobuild(sys, patterns, res) ELSE govet(sys, patterns, res)

(* -------------------------------- state -------------------------------- *)

VARIABLES
    pc,         \* where main is: "main", "godistlist", "run", "exited"
    mode,       \* the -mode flag
    primary,    \* the -first-class flag
    args,       \* the package patterns
    distCalls,  \* results of the authority command, in the order consumed
    platforms,  \* the list returned by godistlist
    next,       \* position of the range loop of run in platforms (from 1)
    index,      \* run's count of failed platforms
    launched,   \* the verification commands started, in order
    results,    \* what each of the commands in launched did
    stderrOut,  \* the writes to os.Stderr, in order
    fatal,      \* the error given to log.Fatal, NilErr if none
    exitStatus  \* the exit status of the process, -1 while it runs

vars == <<pc, mode, primary, args, distCalls, platforms, next, index,
          launched, results, stderrOut, fatal, exitStatus>>

\* One write to os.Stderr.
Out(kind, text) == [kind |-> kind, text |-> text]

\* fmt.Fprintf(os.Stderr, "%s/%s using %s\n", sys.os, sys.arch, gocmdshort)
Header(sys) ==
    Out("header", sys.os \o <<"/">> \o sys.arch \o <<" using ", gocmdshort, "\n">>)

nl == Out("nl", <<"\n">>)

\* log.Fatal(err): the error on os.Stderr, then os.Exit(1).
logFatal(err) ==
    /\ stderrOut' = Append(stderrOut, Out("fatal", err.text))
    /\ fatal' = err
    /\ exitStatus' = 1
    /\ pc' = "exited"

Init ==
    /\ pc = "main"
    /\ mode \in Modes
    /\ primary \in BOOLEAN
    /\ args \in PatternSet
    /\ distCalls = <<>>
    /\ platforms = <<>>
    /\ next = 1
    /\ index = 0
    /\ launched = <<>>
    /\ results = <<>>
    /\ stderrOut = <<>>
    /\ fatal = NilErr
    /\ exitStatus = -1

\* main, without the default case of the switch on *mode.
mainFlags_anyMode ==
    /\ pc = "main"
    /\ pc' = "godistlist"
    /\ UNCHANGED <<mode, primary, args, distCalls, platforms, next, index,
                   launched, results, stderrOut, fatal, exitStatus>>

\* main, up to the switch on *mode: an unknown mode prints the usage and
\* exits with status 2.
mainFlags ==
    /\ pc = "main"
    /\ IF mode \in {"vet", "build"}
       THEN /\ pc' = "godistlist"
            /\ UNCHANGED <<stderrOut, exitStatus>>
       ELSE /\ stderrOut' = stderrOut \o
                  << Out("flag", <<"invalid value ", mode, " for flag -mode">>),
                     Out("usage", <<"Usage: go-portable [-first-class] [-mode <mode>] [packages]">>) >>
            /\ exitStatus' = 2
            /\ pc' = "exited"
    /\ UNCHANGED <<mode, primary, args, distCalls, platforms, next, index,
                   launched, results, fatal>>

\* main: platforms, err := godistlist(*primary); log.Fatal on an error.
mainGodistlist ==
    /\ pc = "godistlist"
    /\ \E d \in DistResults :
         LET r == godistlist(primary, d)
         IN  /\ distCalls' = Append(distCalls, d)
             /\ IF r.err # NilErr
                THEN /\ logFatal(r.err)
                     /\ UNCHANGED platforms
                ELSE /\ platforms' = r.list
                     /\ pc' = "run"
                     /\ UNCHANGED <<stderrOut, fatal, exitStatus>>
    /\ UNCHANGED <<mode, primary, args, next, index, launched, results>>

\* run, going on with the next platform after an error of the tool.
run_continueAfterError ==
    /\ pc = "run"
    /\ next <= Len(platforms)
    /\ \E res \in ProcResults :
         LET sys == platforms[next]
             r   == tool(mode, sys, args, res)
         IN  /\ launched' = Append(launched, r.cmd)
             /\ results' = Append(results, res)
             /\ next' = next + 1
             /\ IF r.err # NilErr \/ r.msg.isnil
                THEN UNCHANGED <<index, stderrOut, fatal, exitStatus, pc>>
                ELSE /\ stderrOut' = stderrOut
                           \o (IF index > 0 THEN <<nl>> ELSE <<>>)
                           \o <<Header(sys), Out("msg", r.msg.b), nl>>
                     /\ index' = index + 1
                     /\ UNCHANGED <<fatal, exitStatus, pc>>
    /\ UNCHANGED <<mode, primary, args, distCalls, platforms>>

\* run, returning after the first diagnostic it has printed.
run_stopAtDiagnostic ==
    /\ pc = "run"
    /\ next <= Len(platforms)
    /\ \E res \in ProcResults :
         LET sys == platforms[next]
             r   == tool(mode, sys, args, res)
         IN  /\ launched' = Append(launched, r.cmd)
             /\ results' = Append(results, res)
             /\ IF r.err # NilErr
                THEN /\ logFatal(r.err)
                     /\ UNCHANGED <<next, index>>
                ELSE IF r.msg.isnil
                THEN /\ next' = next + 1
                     /\ UNCHANGED <<index, stderrOut, fatal, exitStatus, pc>>
                ELSE /\ stderrOut' = stderrOut
                           \o (IF index > 0 THEN <<nl>> ELSE <<>>)
                           \o <<Header(sys), Out("msg", r.msg.b), nl>>
                     /\ index' = index + 1
                     /\ next' = next + 1
                     /\ exitStatus' = 0
                     /\ pc' = "exited"
                     /\ UNCHANGED fatal
    /\ UNCHANGED <<mode, primary, args, distCalls, platforms>>

\* run, writing the separator for every platform but the first of the matrix.
run_separatorByPosition ==
    /\ pc = "run"
    /\ next <= Len(platforms)
    /\ \E res \in ProcResults :
         LET sys == platforms[next]
             r   == tool(mode, sys, args, res)
         IN  /\ launched' = Append(launched, r.cmd)
             /\ results' = Append(results, res)
             /\ IF r.err # NilErr
                THEN /\ logFatal(r.err)
                     /\ UNCHANGED <<next, index>>
                ELSE IF r.msg.isnil
                THEN /\ next' = next + 1
                     /\ UNCHANGED <<index, stderrOut, fatal, exitStatus, pc>>
                ELSE /\ stderrOut' = stderrOut
                           \o (IF next > 1 THEN <<nl>> ELSE <<>>)
                           \o <<Header(sys), Out("msg", r.msg.b), nl>>
                     /\ index' = index + 1
                     /\ next' = next + 1
                     /\ UNCHANGED <<fatal, exitStatus, pc>>
    /\ UNCHANGED <<mode, primary, args, distCalls, platforms>>

\* run, without the test for a nil message: a clean platform gets an entry.
run_reportsClean ==
    /\ pc = "run"
    /\ next <= Len(platforms)
    /\ \E res \in ProcResults :
         LET sys == platforms[next]
             r   == tool(mode, sys, args, res)
         IN  /\ launched' = Append(launched, r.cmd)
             /\ results' = Append(results, res)
             /\ IF r.err # NilErr
                THEN /\ logFatal(r.err)
                     /\ UNCHANGED <<next, index>>
                ELSE /\ stderrOut' = stderrOut
                           \o (IF index > 0 THEN <<nl>> ELSE <<>>)
                           \o <<Header(sys), Out("msg", r.msg.b), nl>>
                     /\ index' = index + 1
                     /\ next' = next + 1
                     /\ UNCHANGED <<fatal, exitStatus, pc>>
    /\ UNCHANGED <<mode, primary, args, distCalls, platforms>>

\* One iteration of the loop of run; an error returned by the tool ends run
\* and main gives it to log.Fatal.
run ==
    /\ pc = "run"
    /\ next <= Len(platforms)
    /\ \E res \in ProcResults :
         LET sys == platforms[next]
             r   == tool(mode, sys, args, res)
         IN  /\ launched' = Append(launched, r.cmd)
             /\ results' = Append(results, res)
             /\ IF r.err # NilErr
                THEN /\ logFatal(r.err)
                     /\ UNCHANGED <<next, index>>
                ELSE IF r.msg.isnil
                THEN /\ next' = next + 1
                     /\ UNCHANGED <<index, stderrOut, fatal, exitStatus, pc>>
                ELSE /\ stderrOut' = stderrOut
                           \o (IF index > 0 THEN <<nl>> ELSE <<>>)
                           \o <<Header(sys), Out("msg", r.msg.b), nl>>
                     /\ index' = index + 1
                     /\ next' = next + 1
                     /\ UNCHANGED <<fatal, exitStatus, pc>>
    /\ UNCHANGED <<mode, primary, args, distCalls, platforms>>

\* The loop of run is over: run returns nil and main returns.
runReturn ==
    /\ pc = "run"
    /\ next > Len(platforms)
    /\ exitStatus' = 0
    /\ pc' = "exited"
    /\ UNCHANGED <<mode, primary, args, distCalls, platforms, next, index,
                   launched, results, stderrOut, fatal>>

Next == mainFlags \/ mainGodistlist \/ run \/ runReturn

Spec == Init /\ [][Next]_vars

TypeOK ==
    /\ pc \in {"main", "godistlist", "run", "exited"}
    /\ exitStatus \in {-1, 0, 1, 2}
    /\ Len(launched) = Len(results)
    /\ index \in 0..Len(platforms)
    /\ next \in 1..(Len(platforms) + 1)

(* ------------- the revision with isFatal (src/main.go) ------------------ *)

\* bytes.HasPrefix(b, prefix), for a prefix that is one chunk of the text.
HasPrefix(b, prefix) == Len(b) >= 1 /\ b[1] = prefix

\* isFatal returns true if the error returned by go vet is fatal.  The
\* expression err.Stderr[0] panics on an empty standard error.
isFatal(err) ==
    IF HasPrefix(err.stderr.b, "package")
    THEN [panic |-> FALSE, fatal |-> FALSE]
    ELSE IF Len(err.stderr.b) = 0
    THEN [panic |-> TRUE, fatal |-> FALSE]
    ELSE IF err.stderr.b[1] = "#"
    THEN [panic |-> FALSE, fatal |-> FALSE]
    ELSE [panic |-> FALSE, fatal |-> FALSE]

\* govet of src/main.go: as govet, with isFatal asked about an exit error and
\* without a return for the other errors.
govetMainGo(sys, patterns, res) ==
    LET cmd == govetCmd(sys, patterns)
        err == invokeRun(res)
        ret(m, e, p) == [cmd |-> cmd, msg |-> m, err |-> e, panic |-> p]
    IN  IF err # NilErr
        THEN CASE err.type = "exec.Error"     -> ret(NilBytes, err, FALSE)
               [] err.type = "exec.ExitError" ->
                      LET f == isFatal(err)
                      IN  IF f.panic THEN ret(NilBytes, NilErr, TRUE)
                          ELSE IF f.fatal THEN ret(NilBytes, err, FALSE)
                          ELSE ret(err.stderr, NilErr, FALSE)
               [] OTHER                        -> ret(NilBytes, NilErr, FALSE)
        ELSE ret(NilBytes, NilErr, FALSE)

\* This revision has no flags: go vet on every platform of the list.
InitMainGo ==
    /\ pc = "godistlist"
    /\ mode = "vet"
    /\ primary = FALSE
    /\ args \in PatternSet
    /\ distCalls = <<>>
    /\ platforms = <<>>
    /\ next = 1
    /\ index = 0
    /\ launched = <<>>
    /\ results = <<>>
    /\ stderrOut = <<>>
    /\ fatal = NilErr
    /\ exitStatus = -1

\* One iteration of the loop of run of src/main.go.  A run-time panic ends
\* the process with the panic on os.Stderr and exit status 2.
runMainGo ==
    /\ pc = "run"
    /\ next <= Len(platforms)
    /\ \E res \in ProcResults :
         LET sys == platforms[next]
             r   == govetMainGo(sys, args, res)
         IN  /\ launched' = Append(launched, r.cmd)
             /\ results' = Append(results, res)
             /\ IF r.panic
                THEN /\ stderrOut' = Append(stderrOut,
                            Out("panic", <<"panic: runtime error: index out of range">>))
                     /\ exitStatus' = 2
                     /\ pc' = "exited"
                     /\ UNCHANGED <<next, index, fatal>>
                ELSE IF r.err # NilErr
                THEN /\ logFatal(r.err)
                     /\ UNCHANGED <<next, index>>
                ELSE IF r.msg.isnil
                THEN /\ next' = next + 1
                     /\ UNCHANGED <<index, stderrOut, fatal, exitStatus, pc>>
                ELSE /\ stderrOut' = stderrOut
                           \o (IF index > 0 THEN <<nl>> ELSE <<>>)
                           \o <<Header(sys), Out("msg", r.msg.b), nl>>
                     /\ index' = index + 1
                     /\ next' = next + 1
                     /\ UNCHANGED <<fatal, exitStatus, pc>>
    /\ UNCHANGED <<mode, primary, args, distCalls, platforms>>

NextMainGo == mainGodistlist \/ runMainGo \/ runReturn

SpecMainGo == InitMainGo /\ [][NextMainGo]_vars

(* ------------------------- reading the history ------------------------- *)

\* What the tool returned for the k-th platform processed.
Returned(k) == tool(mode, platforms[k], args, results[k])

\* The outcome of the k-th platform processed, as run tells them apart: an
\* error is fatal, a nil message is clean, any other message a diagnostic.
Outcome(k) ==
    LET r == Returned(k)
    IN  IF r.err # NilErr THEN "Fatal"
        ELSE IF r.msg.isnil THEN "Clean"
        ELSE "Diagnostic"

Processed == 1..Len(results)

\* The platforms among the first k processed whose outcome was a diagnostic.
RECURSIVE DiagUpTo(_)
DiagUpTo(k) ==
    IF k = 0 THEN <<>>
    ELSE IF Outcome(k) = "Diagnostic" THEN Append(DiagUpTo(k - 1), k)
    ELSE DiagUpTo(k - 1)

IsHeader(o) == o.kind = "header"
IsMsg(o)    == o.kind = "msg"
IsNl(o)     == o.kind = "nl"
IsFatal(o)  == o.kind = "fatal"

\* The header lines and the messages of the report entries rendered so far.
Headers  == SelectSeq(stderrOut, IsHeader)
Messages == SelectSeq(stderrOut, IsMsg)

\* The os/arch text of a platform.
OsArch(sys) == sys.os \o <<"/">> \o sys.arch

\* The platform a verification command was started for.
Target(cmd) ==
    LET v(n) == LET S == {j \in 1..Len(cmd.env) : cmd.env[j].name = n}
                IN  IF S = {} THEN <<>> ELSE cmd.env[CHOOSE j \in S : TRUE].value
    IN  platform(v("GOOS"), v("GOARCH"))

\* run was entered and returned nil: the whole matrix was iterated.
RunReturnedNil == pc = "exited" /\ Len(distCalls) = 1 /\ fatal = NilErr

\* The k-th process ran and exited with a non-zero status.
ExitedNonZero(k) == results[k].started /\ results[k].code # 0

\* A platform with an operating system and an architecture.
WellFormed(sys) == sys.os # <<>> /\ sys.arch # <<>>

\* The k-th process exited with status 0, or with a non-zero status and a
\* standard error that begins with "#".
CleanOrHash(k) ==
    /\ results[k].started
    /\ \/ results[k].code = 0
       \/ results[k].stderr # <<>> /\ results[k].stderr[1] = "#"

(* -------------------------------- claims ------------------------------- *)

\* C1: when the whole matrix was iterated without a fatal outcome, the exit
\* status is 0 if no platform produced a diagnostic and 1 if at least one
\* did.  Stated for the runs about which the outcomes are not in question:
\* every platform is well formed and every command either exits with status
\* 0 (clean) or exits with a non-zero status and a standard error beginning
\* with "#" (diagnostic).
C1_ExitStatusReflectsDiagnostics ==
    (/\ RunReturnedNil
     /\ \A k \in Processed : WellFormed(platforms[k]) /\ CleanOrHash(k)) =>
        exitStatus = (IF \E k \in Processed : ExitedNonZero(k) THEN 1 ELSE 0)

\* C2: when the run ends because of a fatal error, the exit status is
\* neither 0 nor 1.
C2_FatalStatusDistinct ==
    fatal # NilErr => exitStatus \notin {0, 1}

\* C3: a fatal outcome for the platform at index i aborts the run at once: no
\* command is launched for an index above i, no report entry is rendered for
\* index i or later, and the fatal message is the only other output.
C3_FatalAbortsRun ==
    \A i \in Processed :
        Outcome(i) = "Fatal" =>
            /\ pc = "exited"
            /\ Len(launched) = i
            /\ Len(Headers) = Len(DiagUpTo(i - 1))
            /\ Len(Messages) = Len(DiagUpTo(i - 1))
            /\ Len(SelectSeq(stderrOut, IsFatal)) = 1
            /\ IsFatal(stderrOut[Len(stderrOut)])
            /\ \A j \in 1..Len(stderrOut) :
                   stderrOut[j].kind \in {"nl", "header", "msg", "fatal"}

C3_Witness ==
    \E i \in Processed : Outcome(i) = "Fatal" /\ i < Len(platforms)

\* C4: a diagnostic never stops the run: the commands are launched in matrix
\* order, one per platform, and a run without a fatal outcome has launched
\* one for every platform of the matrix.
C4_DiagnosticNeverStops ==
    /\ Len(launched) <= Len(platforms)
    /\ \A k \in 1..Len(launched) : Target(launched[k]) = platforms[k]
    /\ (pc = "run" => Len(launched) = next - 1)
    /\ (RunReturnedNil => Len(launched) = Len(platforms))

C4_Witness ==
    /\ RunReturnedNil
    /\ Len(platforms) = 2
    /\ Outcome(1) = "Diagnostic"
    /\ Len(launched) = 2

\* C5: at every point of the run the rendered entries are, in matrix order,
\* the processed platforms whose outcome was a diagnostic, one entry each,
\* tagged with the os/arch of its platform; a clean platform has none.
C5_EntriesAreDiagnostics ==
    LET d == DiagUpTo(Len(results))
    IN  /\ Len(Headers) = Len(d)
        /\ index = Len(d)
        /\ \A j \in 1..Len(d) :
               LET t == Headers[j].text
                   n == Len(OsArch(platforms[d[j]]))
               IN  /\ Len(t) > n
                   /\ SubSeq(t, 1, n) = OsArch(platforms[d[j]])
                   /\ t[n + 1] = " using "

C5_Witness ==
    /\ Len(results) = 2
    /\ Outcome(1) = "Clean"
    /\ Outcome(2) = "Diagnostic"
    /\ platforms[1] # platforms[2]

\* C6: a command that exits with a non-zero status and an empty standard
\* error is fatal and aborts the run; it is never clean nor a diagnostic
\* (stated for the platforms with an operating system and an architecture).
C6_EmptyStderrIsFatal ==
    \A k \in Processed :
        (/\ WellFormed(platforms[k])
         /\ ExitedNonZero(k)
         /\ results[k].stderr = <<>>) =>
            /\ Outcome(k) = "Fatal"
            /\ Len(launched) = k
            /\ pc = "exited"

\* C7: a command that exits with a non-zero status and a standard error that
\* begins neither with "#" nor with "package" is fatal and aborts the run;
\* it is never a diagnostic (stated for the platforms with an operating
\* system and an architecture).
C7_UnknownStderrIsFatal ==
    \A k \in Processed :
        (/\ WellFormed(platforms[k])
         /\ ExitedNonZero(k)
         /\ results[k].stderr # <<>>
         /\ results[k].stderr[1] \notin {"#", "package"}) =>
            /\ Outcome(k) = "Fatal"
            /\ Len(launched) = k
            /\ pc = "exited"

\* C8: a command that exits with any non-zero status and a standard error
\* beginning with "#" is a diagnostic, and the report entry of its platform
\* carries the whole standard error unchanged.
C8_HashStderrIsDiagnostic ==
    \A k \in Processed :
        (/\ ExitedNonZero(k)
         /\ results[k].stderr # <<>>
         /\ results[k].stderr[1] = "#") =>
            LET j == Len(DiagUpTo(k))
            IN  /\ Outcome(k) = "Diagnostic"
                /\ j >= 1
                /\ Len(Messages) >= j
                /\ Messages[j].text = results[k].stderr
                /\ Len(Headers) >= j
                /\ SubSeq(Headers[j].text, 1, Len(OsArch(platforms[k])))
                       = OsArch(platforms[k])

C8_Witness ==
    \E k \in Processed :
        /\ ExitedNonZero(k)
        /\ results[k].code # 2
        /\ results[k].stderr = StderrHash
        /\ k = 2
        /\ Outcome(1) = "Diagnostic"

\* C9: in either mode a command that exits with status 0 is clean whatever
\* its standard error: nothing is recorded or rendered for its platform and
\* the run goes on with the next platform.
C9_StatusZeroIsClean ==
    [][ (/\ Len(results') = Len(results) + 1
         /\ results'[Len(results')].started
         /\ results'[Len(results')].code = 0) =>
            /\ stderrOut' = stderrOut
            /\ index' = index
            /\ fatal' = fatal
            /\ exitStatus' = exitStatus
            /\ pc' = "run"
            /\ next' = next + 1 ]_vars

C9_Witness ==
    \E k \in Processed :
        /\ results[k].started
        /\ results[k].code = 0
        /\ results[k].stderr = StderrHash
        /\ mode = "build"
        /\ k < Len(results)

\* C10: in both modes a launch failure of the verification command is fatal,
\* whatever standard error was captured, and aborts the run.
C10_LaunchFailureIsFatal ==
    \A k \in Processed :
        ~results[k].started =>
            /\ Outcome(k) = "Fatal"
            /\ k = Len(results)
            /\ Len(launched) = k
            /\ pc = "exited"
            /\ fatal.type = "exec.Error"
            /\ exitStatus \notin {-1, 0}
            /\ Len(Headers) = Len(DiagUpTo(k - 1))

C10_Witness ==
    \E k \in Processed :
        /\ ~results[k].started
        /\ results[k].stderr = StderrHash
        /\ mode = "vet"
        /\ k < Len(platforms)

(* ------------------------ claims on the enumeration -------------------- *)

\* The authority command was run, started and exited with status 0.
DistOk ==
    /\ Len(distCalls) = 1
    /\ distCalls[1].started
    /\ distCalls[1].code = 0

\* The lines of the output of the authority command.
DistLines == ScanLines(distCalls[1].stdout)

\* The number of "/" in a line.
NumSep(line) == Cardinality({j \in 1..Len(line) : line[j] = "/"})

\* A line os/arch with one "/" and text on both sides of it.
IsOsArch(line) ==
    /\ NumSep(line) = 1
    /\ line[1] # "/"
    /\ line[Len(line)] # "/"

\* godistlist returned the error for an invalid output.
EnumerationFailed == pc = "exited" /\ fatal.type = "fmt.Errorf"

\* A text with a newline put at its end, if it is not empty and has none.
WithFinalNewline(t) ==
    IF t = <<>> \/ t[Len(t)] = "\n" THEN t ELSE t \o <<"\n">>

\* C11: without filtering, when every line of the authority output has
\* exactly two fields the enumerator returns one platform per line, in the
\* order of the lines (writing the platforms back as os/arch lines gives the
\* output); when some line has not two fields the enumeration fails and no
\* matrix is returned.
C11_OnePlatformPerLine ==
    (DistOk /\ ~primary) =>
        LET lines == DistLines
        IN  IF \A k \in 1..Len(lines) : NumSep(lines[k]) = 1
            THEN /\ ~EnumerationFailed
                 /\ Len(platforms) = Len(lines)
                 /\ \A k \in 1..Len(platforms) : OsArch(platforms[k]) = lines[k]
                 /\ JoinLines([k \in 1..Len(platforms) |-> OsArch(platforms[k])], TRUE)
                        = WithFinalNewline(distCalls[1].stdout)
            ELSE /\ EnumerationFailed
                 /\ platforms = <<>>
                 /\ launched = <<>>

C11_Witness ==
    /\ DistOk
    /\ ~primary
    /\ Len(platforms) = 2
    /\ platforms[1] # platforms[2]
    /\ WellFormed(platforms[1])
    /\ WellFormed(platforms[2])

\* C12: an empty line in the authority output, in any position, is skipped:
\* it adds no platform and does not make the enumeration fail.  Stated for
\* the outputs that have other lines, all of them os/arch lines.
C12_EmptyLinesSkipped ==
    (/\ DistOk
     /\ ~primary
     /\ \E k \in 1..Len(DistLines) : DistLines[k] # <<>>
     /\ \A k \in 1..Len(DistLines) :
            DistLines[k] = <<>> \/ IsOsArch(DistLines[k])) =>
        /\ ~EnumerationFailed
        /\ Len(platforms) =
               Cardinality({k \in 1..Len(DistLines) : DistLines[k] # <<>>})

\* C13: a line with two fields of which one is empty is rejected with the
\* error for an invalid output, and no platform with an empty operating
\* system or architecture enters the matrix.
C13_EmptyFieldRejected ==
    /\ \A k \in 1..Len(platforms) : WellFormed(platforms[k])
    /\ (/\ DistOk
        /\ \E k \in 1..Len(DistLines) :
               NumSep(DistLines[k]) = 1 /\ ~IsOsArch(DistLines[k])) =>
           EnumerationFailed

\* C14: with -first-class and a well formed authority output, the matrix is
\* the subsequence of the unfiltered matrix made of the platforms whose
\* os/arch is a first class port, in their order.
IsFirstClass(sys) == OsArch(sys) \in firstClass

C14_FilterIsStableSubsequence ==
    (/\ DistOk
     /\ primary
     /\ LET lines == DistLines
        IN  \A k \in 1..Len(lines) : NumSep(lines[k]) = 1) =>
        /\ ~EnumerationFailed
        /\ platforms = SelectSeq(godistlist(FALSE, distCalls[1]).list, IsFirstClass)

C14_Witness ==
    /\ DistOk
    /\ primary
    /\ Len(DistLines) = 2
    /\ DistLines[1] = <<"darwin", "/", "arm64">>
    /\ DistLines[2] = <<"linux", "/", "amd64">>
    /\ platforms = <<platform(<<"linux">>, <<"amd64">>)>>

C16_InvalidModeRejectedFirst ==
    mode \notin {"vet", "build"} =>
        /\ pc \in {"main", "exited"}
        /\ (pc = "exited" => exitStatus \notin {-1, 0})
        /\ distCalls = <<>>
        /\ platforms = <<>>
        /\ launched = <<>>

C16_Witness ==
    /\ mode = "lint"
    /\ pc = "exited"
    /\ exitStatus = 2

\* C17: a command that exits with a non-zero status and a standard error
\* beginning with "package" is a diagnostic of its platform, carrying the
\* standard error, and the run goes on with the next platform.
C17_PackageStderrIsDiagnostic ==
    \A k \in Processed :
        (/\ ExitedNonZero(k)
         /\ results[k].stderr # <<>>
         /\ results[k].stderr[1] = "package") =>
            LET j == Len(DiagUpTo(k))
            IN  /\ Outcome(k) = "Diagnostic"
                /\ j >= 1
                /\ Len(Messages) >= j
                /\ Messages[j].text = results[k].stderr
                /\ (k = Len(results) =>
                       fatal = NilErr /\ (pc = "run" \/ RunReturnedNil))
                /\ (pc = "run" => next > k)
                /\ (RunReturnedNil => Len(launched) = Len(platforms))

C17_Witness ==
    /\ Len(results) = 2
    /\ ExitedNonZero(1)
    /\ results[1].stderr = StderrPackage
    /\ Target(launched[2]) = platforms[2]

\* The value of a variable in the environment of a command, <<>> if unset.
EnvValues(cmd, n) == {cmd.env[j].value : j \in {i \in 1..Len(cmd.env) : cmd.env[i].name = n}}

\* C19: every verification command has GOOS and GOARCH set to the fields of
\* its platform and the patterns, unchanged, after the subcommand of the
\* mode; in build mode, and only in build mode, it has also -o with the
\* discard file and CGO_ENABLED=0.
C19_CommandOfPlatform ==
    \A k \in 1..Len(launched) :
        LET cmd == launched[k]
            n   == Len(cmd.args)
        IN  /\ EnvValues(cmd, "GOOS") = {platforms[k].os}
            /\ EnvValues(cmd, "GOARCH") = {platforms[k].arch}
            /\ n >= 1 + Len(args)
            /\ cmd.args[1] = mode
            /\ SubSeq(cmd.args, n - Len(args) + 1, n) = args
            /\ IF mode = "build"
               THEN /\ SubSeq(cmd.args, 2, n - Len(args)) = <<"-o", DevNull>>
                    /\ EnvValues(cmd, "CGO_ENABLED") = {<<"0">>}
               ELSE /\ n = 1 + Len(args)
                    /\ EnvValues(cmd, "CGO_ENABLED") = {}

C19_Witness ==
    /\ mode = "build"
    /\ Len(launched) = 2
    /\ args # <<>>
    /\ platforms[1] # platforms[2]

\* The writes of the report: headers, messages and newlines.
IsReport(o) == o.kind \in {"header", "msg", "nl"}
Report == SelectSeq(stderrOut, IsReport)

\* C20: a separator newline is written before every entry but the first and
\* before nothing else: after any prefix of the run the separators are
\* max(0, entries - 1), whatever clean platforms lie between, and each entry
\* starts with the header "os/arch using tool" of its platform.
C20_SeparatorsBetweenEntries ==
    LET d == DiagUpTo(Len(results))
        n == Len(d)
    IN  /\ Len(Report) = (IF n = 0 THEN 0 ELSE 4 * n - 1)
        /\ \A j \in 1..n :
               /\ Report[4 * j - 3] =
                      Out("header", OsArch(platforms[d[j]])
                                       \o <<" using ", gocmdshort, "\n">>)
               /\ IsMsg(Report[4 * j - 2])
               /\ IsNl(Report[4 * j - 1])
               /\ (j < n => IsNl(Report[4 * j]))

C20_Witness ==
    /\ Len(platforms) = 2
    /\ Len(results) = 2
    /\ Outcome(1) = "Clean"
    /\ Outcome(2) = "Diagnostic"

(* ----------------------- claims on the classifier ---------------------- *)

\* C18: the classification is a total function of the result of the
\* invocation: every result, a non-zero exit with an empty standard error
\* included, yields one of clean, diagnostic and fatal, and the process does
\* not crash.  Stated of the classifier with isFatal, for the platforms with
\* an operating system and an architecture.
C18_ClassifierIsTotal ==
    \A k \in Processed :
        WellFormed(platforms[k]) =>
            LET r == govetMainGo(platforms[k], args, results[k])
            IN  /\ ~r.panic
                /\ \A j \in 1..Len(stderrOut) : stderrOut[j].kind # "panic"

\* C21: with -first-class the number of fields of a line is tested before the
\* first class ports are looked up: an output with a line that has not two
\* fields fails the enumeration, with the error naming the first such line,
\* though that line is no first class port and would have been left out; and
\* the enumeration fails for no other output.
C21_ValidationBeforeFilter ==
    (DistOk /\ primary) =>
        LET lines == DistLines
            bad   == {k \in 1..Len(lines) : NumSep(lines[k]) # 1}
        IN  IF bad = {}
            THEN ~EnumerationFailed
            ELSE LET first == CHOOSE k \in bad : \A j \in bad : k <= j
                 IN  /\ lines[first] \notin firstClass
                     /\ EnumerationFailed
                     /\ fatal.text = <<gocmdshort, " tool dist list",
                                       ": invalid output: ">> \o lines[first]
                     /\ platforms = <<>>
                     /\ launched = <<>>

C21_Witness ==
    /\ DistOk
    /\ primary
    /\ Len(DistLines) = 2
    /\ DistLines[1] = <<"linux", "/", "amd64">>
    /\ DistLines[2] = <<"linuxamd64">>
    /\ EnumerationFailed

====
